---- MODULE Spec2Model ----
(***************************************************************************)
(* A model of the agentic retrieval-refinement loop of                     *)
(* src/backend/agents/agentic_rag.py: AgenticRAG.answer and its helpers    *)
(* _plan_query_strategy, _retrieve_with_multiple_queries and               *)
(* _check_answer_quality.                                                  *)
(*                                                                         *)
(* Representation.                                                         *)
(*  - A passage text and the context are Python strings whose characters   *)
(*    matter (strip, the "---" split): they are sequences of one-character *)
(*    strings.                                                             *)
(*  - A question, a query, an answer are strings of which only the         *)
(*    identity and the emptiness matter: they are TLA+ strings.            *)
(*  - A JSON scalar is a TLA+ string; a scalar that is not a Python str is *)
(*    written with a leading "#": "#5", "#0", "#true", "#false", "#null".  *)
(*  - A text returned by the Generator to the planner or to the evaluator  *)
(*    is a sequence of tokens (white space, a code fence, the word json,    *)
(*    other text, a complete JSON document carrying its value).            *)
(***************************************************************************)
EXTENDS Integers, Sequences, FiniteSets, TLC

(***************************************************************************)
(* Bounds of the model.                                                    *)
(***************************************************************************)
\* the longest list of sub-queries a planner response carries
MaxSubQueries == 4

\* the largest max_retries a call of generate_answer is given
MaxRetriesArg == 3

\* the most calls of track_activity in one run of the progress tracker
MaxTrackCalls == 3

(***************************************************************************)
(* Program constants.                                                      *)
(***************************************************************************)
\* self.max_iterations = 3
max_iterations == 3
\* all_docs[:10]
MaxSources == 10
\* self._retrieve_with_multiple_queries(sub_queries, k=3)
InitialK == 3
\* a refinement that takes as many passages per query as the initial retrieval
RefineKThree == InitialK

\* self._retrieve_with_multiple_queries([refinement_query], k=2)
RefineK == 2
Min(a, b) == IF a < b THEN a ELSE b

(***************************************************************************)
(* Python strings as character sequences.                                  *)
(***************************************************************************)
Whitespace == {" ", "\n", "\t"}

RECURSIVE LStrip(_)
LStrip(s) ==
    IF s # <<>> /\ Head(s) \in Whitespace THEN LStrip(Tail(s)) ELSE s

RECURSIVE RStrip(_)
RStrip(s) ==
    IF s # <<>> /\ s[Len(s)] \in Whitespace
    THEN RStrip(SubSeq(s, 1, Len(s) - 1))
    ELSE s

\* str.strip()
Strip(s) == RStrip(LStrip(s))

DigitChars == <<"0", "1", "2", "3", "4", "5", "6", "7", "8", "9">>

\* str(n) for n >= 0
RECURSIVE IntToStr(_)
IntToStr(n) ==
    IF n < 10 THEN <<DigitChars[n + 1]>>
    ELSE IntToStr(n \div 10) \o <<DigitChars[(n % 10) + 1]>>

\* "\n\n---\n\n"
Delimiter == <<"\n", "\n", "-", "-", "-", "\n", "\n">>

\* "---", the separator of context.split("---")
SplitSep == <<"-", "-", "-">>

\* "Source "
SourceWord == <<"S", "o", "u", "r", "c", "e", " ">>

\* a label that counts the passages from 0
SourceBlockFromZero(n, content) ==
    SourceWord \o IntToStr(n - 1) \o <<":", "\n">> \o content

\* f"Source {i+1}:\n{doc.page_content}" with n = i+1
SourceBlock(n, content) == SourceWord \o IntToStr(n) \o <<":", "\n">> \o content

\* s starts with p at position i (1-based)
MatchAt(s, p, i) ==
    /\ i + Len(p) - 1 <= Len(s)
    /\ \A j \in 1..Len(p) : s[i + j - 1] = p[j]

\* the positions at which p occurs in s
Matches(s, p) == {j \in 1..Len(s) : MatchAt(s, p, j)}

\* the number of non-overlapping occurrences, scanning from position i, of a
\* pattern of length n that occurs at the positions found: the leftmost
\* occurrence, then those after its end
RECURSIVE CountFrom(_, _, _)
CountFrom(found, n, i) ==
    LET rest == {j \in found : j >= i}
    IN  IF rest = {} THEN 0
        ELSE LET first == CHOOSE j \in rest : \A l \in rest : j <= l
             IN  1 + CountFrom(found, n, first + n)

\* len(s.split(sep))
SplitLen(s, sep) == 1 + CountFrom(Matches(s, sep), Len(sep), 1)

\* sep.join(parts)
RECURSIVE Join(_, _)
Join(sep, parts) ==
    IF parts = <<>> THEN <<>>
    ELSE IF Len(parts) = 1 THEN parts[1]
    ELSE parts[1] \o sep \o Join(sep, Tail(parts))

(***************************************************************************)
(* JSON values and Generator texts.                                        *)
(***************************************************************************)
Absent == "#absent"

\* the Python values that are falsy
Falsy == {"", "#0", "#false", "#null"}

Truthy(a) == a \notin Falsy

\* isinstance(a, str) for a scalar
IsStr(a) == a = "" \/ a \notin {"#0", "#5", "#true", "#false", "#null", Absent}

NoFields == [sufficient |-> Absent, missing_info |-> Absent, refinement_query |-> Absent]

\* a JSON array of scalars
JList(items) == [kind |-> "list", items |-> items, fields |-> NoFields]

\* a JSON object with (some of) the three verdict keys
JDict(s, m, r) ==
    [kind |-> "dict", items |-> <<>>,
     fields |-> [sufficient |-> s, missing_info |-> m, refinement_query |-> r]]

\* a JSON string, number, true, false or null
JScalar(a) == [kind |-> "scalar", items |-> <<a>>, fields |-> NoFields]

NoValue == [kind |-> "none", items |-> <<>>, fields |-> NoFields]

\* tokens of a Generator text
TokWs == [t |-> "ws", v |-> NoValue]
TokFence == [t |-> "fence", v |-> NoValue]
TokJsonWord == [t |-> "json", v |-> NoValue]
TokText == [t |-> "text", v |-> NoValue]
TokDoc(v) == [t |-> "doc", v |-> v]

RECURSIVE TokLStrip(_)
TokLStrip(s) == IF s # <<>> /\ Head(s) = TokWs THEN TokLStrip(Tail(s)) ELSE s

RECURSIVE TokRStrip(_)
TokRStrip(s) ==
    IF s # <<>> /\ s[Len(s)] = TokWs THEN TokRStrip(SubSeq(s, 1, Len(s) - 1)) ELSE s

\* response.strip()
TokStrip(s) == TokRStrip(TokLStrip(s))

\* the test startswith(fence + "json"): response = response[7:]
DropFenceJson(s) ==
    IF Len(s) >= 2 /\ s[1] = TokFence /\ s[2] = TokJsonWord
    THEN SubSeq(s, 3, Len(s)) ELSE s

\* the test startswith(fence): response = response[3:]
DropFenceHead(s) ==
    IF Len(s) >= 1 /\ s[1] = TokFence THEN Tail(s) ELSE s

\* the test endswith(fence): response = response[:-3]
DropFenceTail(s) ==
    IF Len(s) >= 1 /\ s[Len(s)] = TokFence THEN SubSeq(s, 1, Len(s) - 1) ELSE s

\* the three fence tests, applied in the order of the code to the stripped text
CleanFences(s) == DropFenceTail(DropFenceHead(DropFenceJson(TokStrip(s))))

\* json.loads accepts one JSON document with surrounding white space
JsonParses(s) == Len(TokStrip(s)) = 1 /\ TokStrip(s)[1].t = "doc"

\* json.loads(s) when it does not raise
JsonLoads(s) == TokStrip(s)[1].v

\* an outcome of a call of generate_answer: a text, or an exception
Returned(text) == [made |-> TRUE, raised |-> FALSE, text |-> text]
Raised == [made |-> TRUE, raised |-> TRUE, text |-> <<>>]

\* no call has been made
NoOutcome == [made |-> FALSE, raised |-> FALSE, text |-> <<>>]

(***************************************************************************)
(* The inputs: what the Generator and the Retriever may answer.            *)
(***************************************************************************)
\* the caller's question
Questions == {"question?"}

QueryPool == <<"q1", "q2", "q3", "q4", "q5", "q6">>

\* the lists a planner response may carry: the first n queries of the pool,
\* one query twice, a list with an element that is not a string
PlanLists ==
    {SubSeq(QueryPool, 1, n) : n \in 0..MaxSubQueries}
        \cup {<<"q1", "q1">>, <<"#5", "q2">>}

\* the texts the Generator may return to the planner
PlanTexts ==
    {<<TokDoc(JList(l))>> : l \in PlanLists}
        \cup {<<TokWs, TokFence, TokJsonWord, TokWs, TokDoc(JList(<<"q1", "q2">>)), TokWs,
                TokFence, TokWs>>,
              <<TokFence, TokWs, TokDoc(JList(<<"q2">>)), TokFence>>,
              <<>>,
              <<TokText>>,
              <<TokText, TokDoc(JList(<<"q1">>))>>,
              <<TokFence, TokJsonWord, TokFence>>,
              <<TokDoc(JDict("#true", "", ""))>>,
              <<TokDoc(JScalar("q1"))>>,
              <<TokDoc(JScalar("#null"))>>}

PlanOutcomes == {Returned(t) : t \in PlanTexts} \cup {Raised}

\* the refinement query a verdict may carry
RefinementQuery == "X"

\* the JSON documents the Generator may return to the evaluator
VerdictDocs ==
    {JDict("#true", "", ""),
     JDict("#false", "more", RefinementQuery),
     JDict("#false", "more", ""),
     JDict("#0", Absent, Absent),
     JDict("", Absent, Absent),
     JDict("#null", Absent, Absent),
     JDict("#false", "more", "#5"),
     JDict(Absent, "more", RefinementQuery),
     JDict("false", "more", RefinementQuery),
     JList(<<"#false">>),
     JScalar("#null")}

\* the texts the Generator may return to the evaluator
EvalTexts ==
    {<<TokDoc(d)>> : d \in VerdictDocs}
        \cup {<<TokFence, TokJsonWord, TokWs, TokDoc(JDict("#false", "more", RefinementQuery)),
                TokWs, TokFence>>,
              <<>>,
              <<TokText>>,
              <<TokDoc(JDict("#false", "more", RefinementQuery)), TokText>>}

EvalOutcomes == {Returned(t) : t \in EvalTexts} \cup {Raised}

\* the answer the Generator returns to its n-th call of the generation step:
\* a different text at each call
AnswerText(n) == <<"answer ">> \o IntToStr(n)

\* the position of a query in the pool, 0 for any other query
QueryIndex(q) ==
    IF \E i \in 1..Len(QueryPool) : QueryPool[i] = q
    THEN CHOOSE i \in 1..Len(QueryPool) : QueryPool[i] = q
    ELSE 0

PassageLetter == <<"r", "a", "b", "c", "d", "e", "f">>

\* three passages that only query number i retrieves (i = 0: a query outside the
\* pool); the retriever is built with search_kwargs k = 3
Fresh(i) ==
    <<<<PassageLetter[i + 1], "1">>, <<PassageLetter[i + 1], "2">>,
      <<PassageLetter[i + 1], "3">>>>

\* passages several queries retrieve: the first passage of q1, the same text
\* with surrounding white space, a text that holds the split separator
Shared == <<<<"a", "1">>, <<" ", "a", "1", "\n">>, <<"x", "-", "-", "-", "y">>>>

\* what the refinement query retrieves: a passage of q1, then passages of its own
Refined == <<<<"a", "1">>, <<"r", "1">>, <<"r", "2">>>>

Docs(d) == [raised |-> FALSE, docs |-> d]
RetrieverRaised == [raised |-> TRUE, docs |-> <<>>]

\* what self.retriever.invoke(query) may do: return at most RetrieverK passages
\* or raise; a query that is not a string is not answered with passages
RetrieverOutcomes(query) ==
    IF ~IsStr(query) THEN {RetrieverRaised, Docs(<<>>)}
    ELSE IF query = RefinementQuery THEN {RetrieverRaised, Docs(<<>>), Docs(Refined)}
    ELSE IF QueryIndex(query) \in {1, 2}
    THEN {RetrieverRaised, Docs(<<>>), Docs(Fresh(QueryIndex(query))), Docs(Shared)}
    ELSE {RetrieverRaised, Docs(<<>>), Docs(Fresh(QueryIndex(query)))}

(***************************************************************************)
(* _plan_query_strategy                                                    *)
(***************************************************************************)
\* a return statement that takes only a list with elements
PlanAcceptsNonEmpty(v) == v.kind = "list" /\ v.items # <<>>

\* the list test of the planner's return statement
PlanAccepts(v) == v.kind = "list"

\* a fallback that drops the question
PlanFallbackEmpty(q) == <<>>

\* the fallback of the planner: [question]
PlanFallback(q) == <<q>>

\* the value returned for the Generator outcome o
PlanQueryStrategy(q, o) ==
    IF o.raised THEN PlanFallback(q)
    ELSE LET response == TokStrip(CleanFences(o.text))
         IN  IF ~JsonParses(response) THEN PlanFallback(q)
             ELSE IF PlanAccepts(JsonLoads(response)) THEN JsonLoads(response).items
             ELSE PlanFallback(q)

(***************************************************************************)
(* _check_answer_quality                                                   *)
(***************************************************************************)
\* an except branch that asks for more work
DefaultVerdictInsufficient == JDict("#false", "", "")

\* an except branch whose verdict names the failure as the missing information
DefaultVerdictNamesFailure == JDict("#false", "evaluation failed", "")

\* the verdict of the except branch
DefaultVerdict == JDict("#true", "", "")

\* the value returned for the Generator outcome o
CheckAnswerQuality(o) ==
    IF o.raised THEN DefaultVerdict
    ELSE LET response == CleanFences(o.text)
         IN  IF ~JsonParses(response) THEN DefaultVerdict
             ELSE JsonLoads(response)

\* evaluation.get(key, default); only a dict has the method
HasGet(v) == v.kind = "dict"
Get(v, key, default) ==
    IF v.fields[key] = Absent THEN default ELSE v.fields[key]

(***************************************************************************)
(* _retrieve_with_multiple_queries                                         *)
(***************************************************************************)
\* docs[:k]
Take(docs, n) == SubSeq(docs, 1, Min(n, Len(docs)))

\* a deduplication on the text as retrieved, not stripped
RECURSIVE DedupUnstripped(_, _, _)
DedupUnstripped(docs, all, seen) ==
    IF docs = <<>> THEN [all |-> all, seen |-> seen]
    ELSE IF Head(docs) \notin seen
    THEN DedupUnstripped(Tail(docs), Append(all, Head(docs)), seen \cup {Head(docs)})
    ELSE DedupUnstripped(Tail(docs), all, seen)

\* lines 81-85: the passages of one query, in rank order
RECURSIVE Dedup(_, _, _)
Dedup(docs, all, seen) ==
    IF docs = <<>> THEN [all |-> all, seen |-> seen]
    ELSE LET content == Strip(Head(docs))
         IN  IF content \notin seen
             THEN Dedup(Tail(docs), Append(all, Head(docs)), seen \cup {content})
             ELSE Dedup(Tail(docs), all, seen)

\* a combined context of all the passages
CappedNot(all) == all

\* all_docs[:10]
Capped(all) == Take(all, MaxSources)

\* lines 91-100: the combined context of the passages kept
CombinedContext(all) ==
    IF all = <<>> THEN <<>>
    ELSE Join(Delimiter, [i \in 1..Len(Capped(all)) |-> SourceBlock(i, Capped(all)[i])])

(***************************************************************************)
(* AgenticRAG.answer: one run.                                             *)
(***************************************************************************)
VARIABLES
    pc,               \* the step the run is at, or how it ended
    question,         \* the argument question
    use_planning,     \* the argument use_planning
    sub_queries,      \* the local sub_queries
    reasoning_trace,  \* the local reasoning_trace
    context,          \* the local context
    iteration,        \* the loop variable
    answer,           \* the local answer
    evaluation,       \* the local evaluation
    result,           \* the dict returned
    queries,          \* _retrieve_with_multiple_queries: the queries still to retrieve
    k,                \* _retrieve_with_multiple_queries: the argument k
    all_docs,         \* _retrieve_with_multiple_queries: all_docs
    seen_content,     \* _retrieve_with_multiple_queries: seen_content
    plan_outcome,     \* what the Generator answered the planner (until retrieval returns)
    eval_outcome,     \* what the Generator answered the evaluation (until the next round)
    plan_calls,       \* history: the calls of _plan_query_strategy
    gen_calls,        \* history: the Generator calls of the generation step
    eval_calls,       \* history: the calls of _check_answer_quality
    retriever_calls,  \* history: the queries given to the retriever, in order
    agg_calls,        \* history: the calls of _retrieve_with_multiple_queries
    raw_taken,        \* history: the passages docs[:k] of the current aggregator call
    combined,         \* history: the text the last aggregator call returned
    blocks,           \* history: the passages of each text an aggregator call returned
    failure,          \* history: the step whose exception left answer()
    fetched,          \* history: what the retriever did for each query of the
                      \* aggregator call in progress or last returned
    calls             \* history: the calls made, in order, with their arguments

VARIABLES
    frames,           \* concurrent invocations: the local state of each activation
    scripts,          \* concurrent invocations: what the Generator and the
                      \* Retriever answer to each invocation
    steps             \* concurrent invocations: the steps each invocation has taken

concVars == <<frames, scripts, steps>>

VARIABLES
    ga_pc,            \* generate_answer: "LOOP" at the head of the loop, "RETURNED"
    max_retries,      \* generate_answer: its argument
    attempt,          \* generate_answer: the loop variable
    client_outcomes,  \* generate_answer, history: what each client call did
    waits,            \* generate_answer, history: the seconds slept before each retry
    returned          \* generate_answer: the value returned

genVars == <<ga_pc, max_retries, attempt, client_outcomes, waits, returned>>

VARIABLES
    progress,         \* progress tracker: the content of the progress file
    progress_before,  \* progress tracker, history: the content before the last call
    track_calls       \* progress tracker, history: the calls made for each user

progVars == <<progress, progress_before, track_calls>>

\* the variables of the other parts of the program
otherVars == <<concVars, genVars, progVars>>

\* no call of track_activity is modelled
NoTracking == progress = <<>> /\ progress_before = <<>> /\ track_calls = <<>>

\* no call of generate_answer is modelled
NoGeneration ==
    /\ ga_pc = "IDLE"
    /\ max_retries = 0
    /\ attempt = 0
    /\ client_outcomes = <<>>
    /\ waits = <<>>
    /\ returned = <<>>

\* no concurrent invocation is modelled
NoInvocations == frames = <<>> /\ scripts = <<>> /\ steps = <<>>

ragVars ==
    <<pc, question, use_planning, sub_queries, reasoning_trace, context, iteration,
      answer, evaluation, result, queries, k, all_docs, seen_content, plan_outcome,
      eval_outcome, plan_calls, gen_calls, eval_calls, retriever_calls, agg_calls,
      raw_taken, combined, blocks, failure, fetched, calls>>

vars == <<ragVars, otherVars>>

aggVars == <<queries, k, all_docs, seen_content, raw_taken, fetched>>

Entry(msg, args) == [msg |-> msg, args |-> args]

NotFoundAnswer == <<"I couldn't find relevant information in the syllabus for this question.">>

NoResult ==
    [returned |-> FALSE, keys |-> {}, answer |-> <<>>, sources_used |-> 0,
     reasoning_trace |-> <<>>, iterations |-> 0, sub_queries |-> <<>>,
     sub_queries_none |-> FALSE]

\* lines 171-176
NoContextResult(trace) ==
    [returned |-> TRUE,
     keys |-> {"answer", "sources_used", "reasoning_trace", "iterations"},
     answer |-> NotFoundAnswer, sources_used |-> 0, reasoning_trace |-> trace,
     iterations |-> 0, sub_queries |-> <<>>, sub_queries_none |-> FALSE]

\* len(context.split("---"))
SourcesUsed(ctx) == SplitLen(ctx, SplitSep)

\* a report of the loop variable itself
IterationsReportedRaw(it) == it

\* "iterations": iteration + 1
IterationsReported(it) == it + 1

\* lines 213-221
FinalResult(ans, ctx, trace, it, subq, planning) ==
    [returned |-> TRUE,
     keys |-> {"answer", "sources_used", "reasoning_trace", "iterations", "sub_queries"},
     answer |-> ans, sources_used |-> SourcesUsed(ctx),
     reasoning_trace |-> Append(trace, Entry("Final answer generated", <<>>)),
     iterations |-> IterationsReported(it),
     sub_queries |-> IF planning THEN subq ELSE <<>>,
     sub_queries_none |-> ~planning]

\* context[:500]
ContextExcerpt(ctx) == Take(ctx, 500)

\* the calls answer() makes, with the arguments it passes
PlanCall(q) ==
    [op |-> "plan", iteration |-> 0, question |-> q, context |-> <<>>,
     verdict |-> NoValue, queries |-> <<>>, k |-> 0]
AggregateCall(qs, n) ==
    [op |-> "aggregate", iteration |-> 0, question |-> "", context |-> <<>>,
     verdict |-> NoValue, queries |-> qs, k |-> n]
RetrieveCall(q) ==
    [op |-> "retrieve", iteration |-> 0, question |-> "", context |-> <<>>,
     verdict |-> NoValue, queries |-> <<q>>, k |-> 0]
GenerateCall(it, q, ctx) ==
    [op |-> "generate", iteration |-> it, question |-> q, context |-> ctx,
     verdict |-> NoValue, queries |-> <<>>, k |-> 0]
\* a call of _check_answer_quality, with the verdict it returned
EvaluateCall(it, q, ctx, ev) ==
    [op |-> "evaluate", iteration |-> it, question |-> q, context |-> ContextExcerpt(ctx),
     verdict |-> ev, queries |-> <<>>, k |-> 0]

RagInit ==
    /\ pc = "PLANNING"
    /\ question \in Questions
    /\ use_planning \in BOOLEAN
    /\ sub_queries = <<>>
    /\ reasoning_trace = <<>>
    /\ context = <<>>
    /\ iteration = 0
    /\ answer = <<>>
    /\ evaluation = NoValue
    /\ result = NoResult
    /\ queries = <<>>
    /\ k = 0
    /\ all_docs = <<>>
    /\ seen_content = {}
    /\ plan_outcome = NoOutcome
    /\ eval_outcome = NoOutcome
    /\ plan_calls = 0
    /\ gen_calls = 0
    /\ eval_calls = 0
    /\ retriever_calls = <<>>
    /\ agg_calls = <<>>
    /\ raw_taken = 0
    /\ combined = <<>>
    /\ blocks = <<>>
    /\ failure = "none"
    /\ fetched = <<>>
    /\ calls = <<>>

\* one call of answer(), nothing else running
Init == RagInit /\ NoInvocations /\ NoGeneration /\ NoTracking

\* lines 73-74: a call of _retrieve_with_multiple_queries(qs, n) begins
StartAggregator(qs, n) ==
    /\ queries' = qs
    /\ k' = n
    /\ all_docs' = <<>>
    /\ seen_content' = {}
    /\ raw_taken' = 0
    /\ fetched' = <<>>
    /\ agg_calls' = Append(agg_calls, [queries |-> qs, k |-> n])

\* lines 157-168 with use_planning: the planner is called, retrieval begins
PlanWithPlanner ==
    /\ pc = "PLANNING"
    /\ use_planning
    /\ \E o \in PlanOutcomes :
        /\ plan_outcome' = o
        /\ sub_queries' = PlanQueryStrategy(question, o)
        /\ reasoning_trace' =
             reasoning_trace \o
               <<Entry("Planning retrieval strategy...", <<>>),
                 Entry("Sub-queries: ", PlanQueryStrategy(question, o)),
                 Entry("Retrieving information...", <<>>)>>
        /\ StartAggregator(PlanQueryStrategy(question, o), InitialK)
        /\ calls' = calls \o <<PlanCall(question),
                                AggregateCall(PlanQueryStrategy(question, o), InitialK)>>
    /\ plan_calls' = plan_calls + 1
    /\ pc' = "RETRIEVING"
    /\ UNCHANGED <<otherVars, question, use_planning, context, iteration, answer, evaluation,
                   result, eval_outcome, gen_calls, eval_calls, retriever_calls,
                   combined, blocks, failure>>

\* lines 162-168 without use_planning: the question is the only query
PlanDirect ==
    /\ pc = "PLANNING"
    /\ ~use_planning
    /\ sub_queries' = <<question>>
    /\ reasoning_trace' =
         reasoning_trace \o
           <<Entry("Using direct query", <<>>), Entry("Retrieving information...", <<>>)>>
    /\ StartAggregator(<<question>>, InitialK)
    /\ calls' = Append(calls, AggregateCall(<<question>>, InitialK))
    /\ pc' = "RETRIEVING"
    /\ UNCHANGED <<otherVars, question, use_planning, context, iteration, answer, evaluation,
                   result, plan_outcome, eval_outcome, plan_calls, gen_calls,
                   eval_calls, retriever_calls, combined, blocks, failure>>

\* an aggregator that starts over when a retrieval fails
OnRetrievalFailureStartsOver(all, seen) == [all |-> <<>>, seen |-> {}]

\* lines 87-89: except Exception, continue
OnRetrievalFailure(all, seen) == [all |-> all, seen |-> seen]

\* lines 76-89: one round of the loop over the queries
RetrieveQuery ==
    /\ pc \in {"RETRIEVING", "REFINING"}
    /\ queries # <<>>
    /\ \E o \in RetrieverOutcomes(Head(queries)) :
        LET d == IF o.raised THEN OnRetrievalFailure(all_docs, seen_content)
                 ELSE Dedup(Take(o.docs, k), all_docs, seen_content)
        IN  /\ all_docs' = d.all
            /\ seen_content' = d.seen
            /\ raw_taken' = (IF o.raised THEN raw_taken
                             ELSE raw_taken + Len(Take(o.docs, k)))
            /\ fetched' = Append(fetched, [query |-> Head(queries), raised |-> o.raised,
                                           docs |-> o.docs])
    /\ retriever_calls' = Append(retriever_calls, Head(queries))
    /\ calls' = Append(calls, RetrieveCall(Head(queries)))
    /\ queries' = Tail(queries)
    /\ UNCHANGED <<otherVars, pc, question, use_planning, sub_queries, reasoning_trace, context,
                   iteration, answer, evaluation, result, k, plan_outcome,
                   eval_outcome, plan_calls, gen_calls, eval_calls, agg_calls,
                   combined, blocks, failure>>

\* a run that goes on without any context
IsEmptyContextNever(ctx) == FALSE

\* if not context
IsEmptyContext(ctx) == ctx = <<>>

\* lines 91-100 and 168-182: the initial retrieval returns
RetrievalReturn ==
    /\ pc = "RETRIEVING"
    /\ queries = <<>>
    /\ context' = CombinedContext(all_docs)
    /\ combined' = CombinedContext(all_docs)
    /\ blocks' = Append(blocks, Capped(all_docs))
    /\ IF IsEmptyContext(CombinedContext(all_docs))
       THEN /\ result' = NoContextResult(reasoning_trace)
            /\ pc' = "NO_CONTEXT"
            /\ UNCHANGED reasoning_trace
       ELSE /\ reasoning_trace' =
                 Append(reasoning_trace,
                        Entry("Retrieved information from multiple sources", <<>>))
            /\ pc' = "GENERATING"
            /\ UNCHANGED result
    /\ iteration' = 0
    /\ answer' = <<>>
    /\ plan_outcome' = NoOutcome
    /\ UNCHANGED <<otherVars, question, use_planning, sub_queries, evaluation, failure,
                   eval_outcome, plan_calls, gen_calls, eval_calls, retriever_calls,
                   agg_calls, calls>>
    /\ UNCHANGED aggVars

\* a loop that runs one round too many
LoopContinuesOneMore(it) == it < max_iterations

\* for iteration in range(self.max_iterations): another round follows round it
LoopContinues(it) == it + 1 < max_iterations

\* an evaluation after every generation, the last one included
EvaluatesAlways(it) == it < max_iterations

\* if iteration < self.max_iterations - 1
EvaluatesAt(it) == it < max_iterations - 1

\* lines 213-221: the loop is over, the result is returned
Finish(ans, ctx, trace, exit) ==
    /\ result' = FinalResult(ans, ctx, trace, iteration, sub_queries, use_planning)
    /\ reasoning_trace' = Append(trace, Entry("Final answer generated", <<>>))
    /\ pc' = exit
    /\ UNCHANGED iteration

\* the end of one round of the loop that did not break
Advance(ans, ctx, trace) ==
    IF LoopContinues(iteration)
    THEN /\ iteration' = iteration + 1
         /\ reasoning_trace' = trace
         /\ pc' = "GENERATING"
         /\ UNCHANGED result
    ELSE Finish(ans, ctx, trace, "DONE")

\* a generation asked about the first sub-query instead of the question
GenerationQuestionSubQuery == IF sub_queries # <<>> THEN sub_queries[1] ELSE question

\* question=question, the argument of the generation call
GenerationQuestion == question

\* a generation step that records the exception and carries on with no answer
GenerationRaisesCaught(trace) ==
    /\ pc' = "EVALUATING"
    /\ failure' = "generation"
    /\ answer' = <<>>
    /\ reasoning_trace' = trace
    /\ UNCHANGED <<iteration, result>>

\* generate_answer raises in the generation step: nothing in answer() catches it
GenerationRaises(trace) ==
    /\ pc' = "FAILED"
    /\ failure' = "generation"
    /\ reasoning_trace' = trace
    /\ UNCHANGED <<answer, iteration, result>>

\* lines 185-193: the generation step of one round
Generate ==
    /\ pc = "GENERATING"
    /\ gen_calls' = gen_calls + 1
    /\ calls' = Append(calls, GenerateCall(iteration, GenerationQuestion, context))
    /\ LET trace == Append(reasoning_trace,
                           Entry("Generating answer (iteration ", IntToStr(iteration + 1)))
       IN  \/ GenerationRaises(trace)
           \/ \* generate_answer returns its text
              /\ answer' = AnswerText(gen_calls + 1)
              /\ UNCHANGED failure
              /\ IF EvaluatesAt(iteration)
                 THEN /\ pc' = "EVALUATING"
                      /\ reasoning_trace' = trace
                      /\ UNCHANGED <<iteration, result>>
                 ELSE Advance(AnswerText(gen_calls + 1), context, trace)
    /\ eval_outcome' = NoOutcome
    /\ UNCHANGED <<otherVars, question, use_planning, sub_queries, context, evaluation,
                   plan_outcome, plan_calls, eval_calls,
                   retriever_calls, agg_calls, combined, blocks>>
    /\ UNCHANGED aggVars

\* evaluation.get("sufficient", True)
\* a loop that takes no verdict as sufficient
SufficientNever(ev) == FALSE

\* a loop that takes only the JSON value true as sufficient
SufficientOnlyTrue(ev) == Get(ev, "sufficient", "#true") = "#true"

Sufficient(ev) == Truthy(Get(ev, "sufficient", "#true"))

\* a refinement that retrieves for the sub-queries again
RefinementQueriesAll(rq, subq) == Append(subq, rq)

\* queries=[refinement_query]
RefinementQueries(rq, subq) == <<rq>>

\* a loop without the refinement retrieval
WantsRefinementNever(rq) == FALSE

\* a refinement retrieval whatever the refinement query is
WantsRefinementAlways(rq) == TRUE

\* if refinement_query
WantsRefinement(rq) == Truthy(rq)

\* a refinement that leaves the context alone when it retrieved nothing
ExtendContextIfAny(ctx, additional) ==
    IF additional = <<>> THEN ctx ELSE ctx \o Delimiter \o additional

\* a refinement that replaces the context by what it retrieved
ExtendContextReplaces(ctx, additional) == additional

\* context + "\n\n---\n\n" + additional_context
ExtendContext(ctx, additional) == ctx \o Delimiter \o additional

\* lines 194-211 up to the refinement retrieval
Evaluate ==
    /\ pc = "EVALUATING"
    /\ eval_calls' = eval_calls + 1
    /\ \E o \in EvalOutcomes :
        LET ev == CheckAnswerQuality(o)
            trace == Append(reasoning_trace, Entry("Evaluating answer quality...", <<>>))
            missing == Append(trace,
                              Entry("Missing info: ", <<Get(ev, "missing_info", "unknown")>>))
            refinement_query == Get(ev, "refinement_query", "")
        IN  /\ eval_outcome' = o
            /\ evaluation' = ev
            /\ calls' =
                 calls \o <<EvaluateCall(iteration, question, context, ev)>> \o
                   (IF HasGet(ev) /\ ~Sufficient(ev) /\ WantsRefinement(refinement_query)
                    THEN <<AggregateCall(RefinementQueries(refinement_query, sub_queries),
                                         RefineK)>>
                    ELSE <<>>)
            /\ IF ~HasGet(ev)
               THEN \* evaluation.get raises AttributeError, which nothing catches
                    /\ pc' = "FAILED"
                    /\ failure' = "evaluation"
                    /\ reasoning_trace' = trace
                    /\ UNCHANGED <<iteration, result>>
                    /\ UNCHANGED <<aggVars, agg_calls>>
               ELSE IF Sufficient(ev)
               THEN /\ Finish(answer, context,
                              Append(trace, Entry("Answer is sufficient", <<>>)),
                              "SUFFICIENT")
                    /\ UNCHANGED <<aggVars, agg_calls, failure>>
               ELSE IF WantsRefinement(refinement_query)
               THEN /\ reasoning_trace' =
                         Append(missing, Entry("Refining with query: ", <<refinement_query>>))
                    /\ StartAggregator(RefinementQueries(refinement_query, sub_queries),
                                       RefineK)
                    /\ pc' = "REFINING"
                    /\ UNCHANGED <<iteration, result, failure>>
               ELSE /\ Advance(answer, context, missing)
                    /\ UNCHANGED <<aggVars, agg_calls, failure>>
    /\ UNCHANGED <<otherVars, question, use_planning, sub_queries, context, answer, plan_outcome,
                   plan_calls, gen_calls, retriever_calls, combined, blocks>>

\* lines 91-100 and 207-211: the refinement retrieval returns, the round ends
RefinementReturn ==
    /\ pc = "REFINING"
    /\ queries = <<>>
    /\ context' = ExtendContext(context, CombinedContext(all_docs))
    /\ combined' = CombinedContext(all_docs)
    /\ blocks' = Append(blocks, Capped(all_docs))
    /\ Advance(answer, ExtendContext(context, CombinedContext(all_docs)), reasoning_trace)
    /\ UNCHANGED <<otherVars, question, use_planning, sub_queries, answer, evaluation, failure,
                   plan_outcome, eval_outcome, plan_calls, gen_calls, eval_calls,
                   retriever_calls, agg_calls, calls>>
    /\ UNCHANGED aggVars

Next ==
    \/ PlanWithPlanner
    \/ PlanDirect
    \/ RetrieveQuery
    \/ RetrievalReturn
    \/ Generate
    \/ Evaluate
    \/ RefinementReturn

Spec == Init /\ [][Next]_vars

(***************************************************************************)
(* agentic_answer: two invocations whose steps interleave.  Each call      *)
(* builds its own AgenticRAG and runs answer() in its own frame.           *)
(***************************************************************************)
Invocations == {1, 2}

\* one agent object, made once and used by every call
ActivationShared(p) == 1

\* agent = AgenticRAG(); agent.answer(...): the agent and the locals of
\* answer() and of _retrieve_with_multiple_queries belong to the call
Activation(p) == p

Insufficient(rq) == Returned(<<TokDoc(JDict("#false", "more", rq))>>)

\* what the Generator and the Retriever answer to one invocation: the planner
\* outcome, the retriever outcome of each query, the evaluator outcomes
Scripts ==
    {[question |-> "question A", use_planning |-> TRUE,
      plan |-> Returned(<<TokDoc(JList(<<"q1", "q2">>))>>),
      retrieved |-> [q \in {"q1"} |-> Docs(Fresh(1))] @@ [q \in {"q2"} |-> Docs(Shared)]
                      @@ [q \in {RefinementQuery} |-> Docs(Refined)],
      verdicts |-> <<Insufficient(RefinementQuery), Returned(<<TokDoc(JDict("#true", "", ""))>>)>>],
     [question |-> "question B", use_planning |-> TRUE,
      plan |-> Raised,
      retrieved |-> [q \in {"question B"} |-> Docs(Fresh(2))],
      verdicts |-> <<Insufficient(""), Raised>>],
     [question |-> "question C", use_planning |-> FALSE,
      plan |-> NoOutcome,
      retrieved |-> [q \in {"question C"} |-> Docs(Fresh(3))]
                      @@ [q \in {RefinementQuery} |-> RetrieverRaised],
      verdicts |-> <<Insufficient(RefinementQuery), Insufficient(RefinementQuery)>>],
     [question |-> "question D", use_planning |-> FALSE,
      plan |-> NoOutcome,
      retrieved |-> [q \in {"question D"} |-> RetrieverRaised],
      verdicts |-> <<>>]}

\* the locals of one activation before answer() runs
InitFrame(sc) ==
    [pc |-> "PLANNING", sub_queries |-> <<>>, reasoning_trace |-> <<>>,
     context |-> <<>>, iteration |-> 0, answer |-> <<>>, result |-> NoResult,
     queries |-> <<>>, k |-> 0, all_docs |-> <<>>, seen_content |-> {},
     gens |-> 0, evals |-> 0]

\* lines 213-221 in a frame
FrameFinish(f, sc, exit) ==
    [f EXCEPT !.result = FinalResult(f.answer, f.context, f.reasoning_trace, f.iteration,
                                     f.sub_queries, sc.use_planning),
              !.reasoning_trace = Append(@, Entry("Final answer generated", <<>>)),
              !.pc = exit]

\* line 184 in a frame: the next round of the loop, or its end
FrameAdvance(f, sc) ==
    IF LoopContinues(f.iteration)
    THEN [f EXCEPT !.iteration = @ + 1, !.pc = "GENERATING"]
    ELSE FrameFinish(f, sc, "DONE")

\* lines 157-168 in a frame
FramePlan(f, sc) ==
    LET subq == IF sc.use_planning THEN PlanQueryStrategy(sc.question, sc.plan)
                ELSE <<sc.question>>
        trace == IF sc.use_planning
                 THEN <<Entry("Planning retrieval strategy...", <<>>),
                        Entry("Sub-queries: ", subq)>>
                 ELSE <<Entry("Using direct query", <<>>)>>
    IN  [f EXCEPT !.sub_queries = subq,
                  !.reasoning_trace = trace \o <<Entry("Retrieving information...", <<>>)>>,
                  !.queries = subq, !.k = InitialK, !.all_docs = <<>>,
                  !.seen_content = {}, !.pc = "RETRIEVING"]

\* lines 76-89 in a frame: one round of the loop over the queries
FrameRetrieve(f, sc) ==
    LET o == sc.retrieved[Head(f.queries)]
        d == IF o.raised THEN OnRetrievalFailure(f.all_docs, f.seen_content)
             ELSE Dedup(Take(o.docs, f.k), f.all_docs, f.seen_content)
    IN  [f EXCEPT !.all_docs = d.all, !.seen_content = d.seen, !.queries = Tail(@)]

\* lines 91-100 and 168-182 in a frame
FrameRetrievalReturn(f, sc) ==
    IF IsEmptyContext(CombinedContext(f.all_docs))
    THEN [f EXCEPT !.result = NoContextResult(f.reasoning_trace), !.pc = "NO_CONTEXT"]
    ELSE [f EXCEPT !.context = CombinedContext(f.all_docs),
                   !.reasoning_trace =
                       Append(@, Entry("Retrieved information from multiple sources", <<>>)),
                   !.pc = "GENERATING"]

\* lines 185-193 in a frame
FrameGenerate(f, sc) ==
    LET g == [f EXCEPT !.reasoning_trace =
                           Append(@, Entry("Generating answer (iteration ",
                                           IntToStr(f.iteration + 1))),
                       !.answer = AnswerText(f.gens + 1),
                       !.gens = @ + 1]
    IN  IF EvaluatesAt(f.iteration) THEN [g EXCEPT !.pc = "EVALUATING"]
        ELSE FrameAdvance(g, sc)

\* lines 194-210 in a frame
FrameEvaluate(f, sc) ==
    LET ev == CheckAnswerQuality(sc.verdicts[f.evals + 1])
        g == [f EXCEPT !.evals = @ + 1,
                       !.reasoning_trace =
                           Append(@, Entry("Evaluating answer quality...", <<>>))]
        missing == [g EXCEPT !.reasoning_trace =
                        Append(@, Entry("Missing info: ",
                                        <<Get(ev, "missing_info", "unknown")>>))]
        refinement_query == Get(ev, "refinement_query", "")
    IN  IF ~HasGet(ev) THEN [g EXCEPT !.pc = "FAILED"]
        ELSE IF Sufficient(ev)
        THEN FrameFinish([g EXCEPT !.reasoning_trace =
                                       Append(@, Entry("Answer is sufficient", <<>>))],
                         sc, "SUFFICIENT")
        ELSE IF WantsRefinement(refinement_query)
        THEN [missing EXCEPT !.reasoning_trace =
                                 Append(@, Entry("Refining with query: ",
                                                 <<refinement_query>>)),
                             !.queries = RefinementQueries(refinement_query, f.sub_queries),
                             !.k = RefineK,
                             !.all_docs = <<>>, !.seen_content = {},
                             !.pc = "REFINING"]
        ELSE FrameAdvance(missing, sc)

\* line 211 in a frame
FrameRefinementReturn(f, sc) ==
    FrameAdvance([f EXCEPT !.context = ExtendContext(@, CombinedContext(f.all_docs))], sc)

FrameEnded(f) == f.pc \in {"NO_CONTEXT", "SUFFICIENT", "DONE", "FAILED"}

\* the next step of answer() in the frame f
FrameStep(f, sc) ==
    CASE f.pc = "PLANNING" -> FramePlan(f, sc)
      [] f.pc \in {"RETRIEVING", "REFINING"} /\ f.queries # <<>> -> FrameRetrieve(f, sc)
      [] f.pc = "RETRIEVING" /\ f.queries = <<>> -> FrameRetrievalReturn(f, sc)
      [] f.pc = "REFINING" /\ f.queries = <<>> -> FrameRefinementReturn(f, sc)
      [] f.pc = "GENERATING" -> FrameGenerate(f, sc)
      [] f.pc = "EVALUATING" -> FrameEvaluate(f, sc)
      [] OTHER -> f

InitConcurrent ==
    /\ RagInit
    /\ use_planning
    /\ scripts \in [Invocations -> Scripts]
    /\ frames = [p \in Invocations |-> InitFrame(scripts[p])]
    /\ steps = [p \in Invocations |-> 0]
    /\ NoGeneration
    /\ NoTracking

\* invocation p takes its next step
InvocationStep(p) ==
    /\ ~FrameEnded(frames[Activation(p)])
    /\ frames' = [frames EXCEPT ![Activation(p)] = FrameStep(@, scripts[p])]
    /\ steps' = [steps EXCEPT ![p] = @ + 1]
    /\ UNCHANGED <<scripts, ragVars, genVars, progVars>>

FirstInvocationStep == InvocationStep(1)

SecondInvocationStep == InvocationStep(2)

NextConcurrent == FirstInvocationStep \/ SecondInvocationStep

SpecConcurrent == InitConcurrent /\ [][NextConcurrent]_vars

(***************************************************************************)
(* qa_agent.generate_answer: one call.                                     *)
(***************************************************************************)
UpperChars ==
    <<"A", "B", "C", "D", "E", "F", "G", "H", "I", "J", "K", "L", "M",
      "N", "O", "P", "Q", "R", "S", "T", "U", "V", "W", "X", "Y", "Z">>

LowerChars ==
    <<"a", "b", "c", "d", "e", "f", "g", "h", "i", "j", "k", "l", "m",
      "n", "o", "p", "q", "r", "s", "t", "u", "v", "w", "x", "y", "z">>

\* str.lower()
Lower(str) ==
    [i \in 1..Len(str) |->
        IF \E u \in 1..Len(UpperChars) : UpperChars[u] = str[i]
        THEN LowerChars[CHOOSE u \in 1..Len(UpperChars) : UpperChars[u] = str[i]]
        ELSE str[i]]

\* word in msg
Contains(msg, word) == Matches(msg, word) # {}

\* the messages of the exceptions client.chat_completion may raise
ErrorMessages ==
    {<<"M", "o", "d", "e", "l", " ", "i", "s", " ", "c", "u", "r", "r", "e", "n", "t", "l", "y", " ", "L", "o", "a", "d", "i", "n", "g">>,
     <<"m", "o", "d", "e", "l", " ", "w", "a", "r", "m", "i", "n", "g", " ", "u", "p">>,
     <<"M", "o", "d", "e", "l", " ", "N", "o", "t", " ", "R", "e", "a", "d", "y">>,
     <<"R", "a", "t", "e", " ", "L", "i", "m", "i", "t", " ", "e", "x", "c", "e", "e", "d", "e", "d">>,
     <<"r", "a", "t", "e", " ", "l", "i", "m", "i", "t", " ", "h", "i", "t", " ", "w", "h", "i", "l", "e", " ", "l", "o", "a", "d", "i", "n", "g", " ", "m", "o", "d", "e", "l">>,
     <<"C", "o", "n", "n", "e", "c", "t", "i", "o", "n", " ", "r", "e", "s", "e", "t">>}

\* the texts a reply may carry: one with white space around it, an empty one
ReplyTexts == {<<" ", "a", "n", " ", "a", "n", "s", "w", "e", "r", "\n">>, <<>>}

ClientReturns(text) == [ok |-> TRUE, none |-> FALSE, text |-> text]
ClientReturnsNone == [ok |-> TRUE, none |-> TRUE, text |-> <<>>]
ClientRaises(msg) == [ok |-> FALSE, none |-> FALSE, text |-> msg]

\* what one call of client.chat_completion may do
ClientOutcomes ==
    {ClientReturns(t) : t \in ReplyTexts} \cup {ClientReturnsNone}
        \cup {ClientRaises(m) : m \in ErrorMessages}

\* str(e) of AttributeError for None.strip()
NoneStripMessage == <<"N", "o", "n", "e", "T", "y", "p", "e", " ", "h", "a", "s", " ", "n", "o", " ", "s", "t", "r", "i", "p">>

LoadingMessage == <<"The AI model is currently loading. Please wait 30 seconds and try again.">>
RateLimitMessage == <<"Rate limit reached. Please wait a moment and try again.">>
NoConnectionMessage == <<"Could not connect to AI model. Please try again in a moment.">>
UnableMessage(msg) ==
    <<"Unable to generate response. Error: ">> \o Take(msg, 100)

\* a retry after every exception
IsLoadingErrorAny(error_msg) == TRUE

\* "loading" in error_msg or "warming" in error_msg or "not ready" in error_msg
IsLoadingError(error_msg) ==
    \/ Contains(error_msg, <<"l", "o", "a", "d", "i", "n", "g">>)
    \/ Contains(error_msg, <<"w", "a", "r", "m", "i", "n", "g">>)
    \/ Contains(error_msg, <<"n", "o", "t", " ", "r", "e", "a", "d", "y">>)

\* "rate limit" in error_msg
IsRateLimitError(error_msg) == Contains(error_msg, <<"r", "a", "t", "e", " ", "l", "i", "m", "i", "t">>)

\* the except branch for str(e) = msg: the value returned, or a retry
HandleError(msg, n, retries) ==
    IF IsLoadingError(Lower(msg))
    THEN IF n < retries - 1
         THEN [retry |-> TRUE, wait |-> (n + 1) * 5, value |-> <<>>]
         ELSE [retry |-> FALSE, wait |-> 0, value |-> LoadingMessage]
    ELSE IF IsRateLimitError(Lower(msg))
    THEN [retry |-> FALSE, wait |-> 0, value |-> RateLimitMessage]
    ELSE [retry |-> FALSE, wait |-> 0, value |-> UnableMessage(msg)]

InitGenerate ==
    /\ RagInit
    /\ use_planning
    /\ NoInvocations
    /\ NoTracking
    /\ ga_pc = "LOOP"
    /\ max_retries \in 0..MaxRetriesArg
    /\ attempt = 0
    /\ client_outcomes = <<>>
    /\ waits = <<>>
    /\ returned = <<>>

\* lines 30-76: one round of the loop, the client call and what follows it
Attempt ==
    /\ ga_pc = "LOOP"
    /\ attempt < max_retries
    /\ \E o \in ClientOutcomes :
        /\ client_outcomes' = Append(client_outcomes, o)
        /\ IF o.ok /\ ~o.none
           THEN /\ returned' = Strip(o.text)
                /\ ga_pc' = "RETURNED"
                /\ UNCHANGED <<attempt, waits>>
           ELSE LET h == HandleError(IF o.ok THEN NoneStripMessage ELSE o.text,
                                     attempt, max_retries)
                IN  IF h.retry
                    THEN /\ waits' = Append(waits, h.wait)
                         /\ attempt' = attempt + 1
                         /\ UNCHANGED <<ga_pc, returned>>
                    ELSE /\ returned' = h.value
                         /\ ga_pc' = "RETURNED"
                         /\ UNCHANGED <<attempt, waits>>
    /\ UNCHANGED <<max_retries, ragVars, concVars, progVars>>

\* line 78: the loop ended without a return
LoopExhausted ==
    /\ ga_pc = "LOOP"
    /\ attempt >= max_retries
    /\ returned' = NoConnectionMessage
    /\ ga_pc' = "RETURNED"
    /\ UNCHANGED <<max_retries, attempt, client_outcomes, waits, ragVars, concVars,
                   progVars>>

NextGenerate == Attempt \/ LoopExhausted

SpecGenerate == InitGenerate /\ [][NextGenerate]_vars

(***************************************************************************)
(* progress_agent.track_activity: calls executed one at a time on the      *)
(* progress file; the file is read and written without failure and the     *)
(* time stamps are left out.                                               *)
(***************************************************************************)
Users == {"u1", "u2"}

Topics == {"t1", "t2"}

\* None as a score or a total: the scores and totals are not negative
None == 0 - 1

\* the score and total a call may carry
QuizInputs ==
    {[score |-> None, total |-> None], [score |-> None, total |-> 10],
     [score |-> 8, total |-> 0], [score |-> 10, total |-> 10],
     [score |-> 9, total |-> 10], [score |-> 7, total |-> 10],
     [score |-> 5, total |-> 10]}

ActivityTypes == {"explain", "deep", "references", "quiz", "lab", "question", "deep_research"}

Max(a, b) == IF a > b THEN a ELSE b

\* round(a / b, 0) for a >= 0, b > 0: a tie goes to the even neighbour
RoundDiv(a, b) ==
    LET q == a \div b
        r == a % b
    IN  IF 2 * r > b THEN q + 1
        ELSE IF 2 * r = b THEN q + (q % 2)
        ELSE q

\* score / total raises TypeError when score is None and total is truthy
PercentageRaises(score, total) == total \notin {None, 0} /\ score = None

\* round((score / total * 100) if total else 0, 2), in hundredths of a percent
Percentage(score, total) ==
    IF total \in {None, 0} THEN 0 ELSE RoundDiv(score * 10000, total)

\* lines 50-58
NewUser ==
    [topics |-> <<>>, total_activities |-> 0, quizzes_taken |-> 0,
     average_score |-> 0, streak_days |-> 0, achievements |-> <<>>]

\* lines 64-74
NewTopic ==
    [explained |-> FALSE, deep_explained |-> FALSE, references_viewed |-> FALSE,
     quizzes |-> <<>>, labs_completed |-> <<>>, questions_asked |-> 0,
     mastery_level |-> 0]

\* lines 79-114: the topic after the activity
UpdateTopic(td, topic, activity_type, score, total) ==
    CASE activity_type = "explain" ->
           [td EXCEPT !.explained = TRUE, !.mastery_level = Max(@, 25)]
      [] activity_type = "deep" ->
           [td EXCEPT !.deep_explained = TRUE, !.mastery_level = Max(@, 50)]
      [] activity_type = "references" -> [td EXCEPT !.references_viewed = TRUE]
      [] activity_type = "quiz" ->
           [td EXCEPT !.quizzes = Append(@, Percentage(score, total)),
                      !.mastery_level =
                          IF Percentage(score, total) >= 9000 THEN 100
                          ELSE IF Percentage(score, total) >= 7000 THEN Max(@, 75)
                          ELSE @]
      [] activity_type = "lab" ->
           [td EXCEPT !.labs_completed = Append(@, topic), !.mastery_level = Max(@, 80)]
      [] activity_type = "question" -> [td EXCEPT !.questions_asked = @ + 1]
      [] OTHER -> td

\* the percentages of all the quizzes of a user, topic after topic
RECURSIVE AllQuizzes(_, _)
AllQuizzes(topics, names) ==
    IF names = {} THEN <<>>
    ELSE LET t == CHOOSE x \in names : TRUE
         IN  topics[t].quizzes \o AllQuizzes(topics, names \ {t})

RECURSIVE Sum(_)
Sum(xs) == IF xs = <<>> THEN 0 ELSE Head(xs) + Sum(Tail(xs))

\* lines 121-130
AverageScore(user) ==
    LET all_quizzes == AllQuizzes(user.topics, DOMAIN user.topics)
    IN  IF all_quizzes = <<>> THEN user.average_score
        ELSE RoundDiv(Sum(all_quizzes), Len(all_quizzes))

Award(achievements, name, earned) ==
    IF earned /\ \A i \in 1..Len(achievements) : achievements[i] # name
    THEN Append(achievements, name)
    ELSE achievements

\* check_achievements
CheckAchievements(user) ==
    LET all_quizzes == AllQuizzes(user.topics, DOMAIN user.topics)
        a1 == Award(user.achievements, "first_steps", user.total_activities >= 1)
        a2 == Award(a1, "quiz_master",
                    Len(SelectSeq(all_quizzes, LAMBDA q : q >= 8000)) >= 5)
        a3 == Award(a2, "explorer", Cardinality(DOMAIN user.topics) >= 5)
        a4 == Award(a3, "perfectionist", \E i \in 1..Len(all_quizzes) : all_quizzes[i] = 10000)
    IN  [user EXCEPT !.achievements = a4]

\* lines 47-135: the user's entry after a call that does not raise
TrackedUser(data, user_id, topic, activity_type, score, total) ==
    LET user == IF user_id \in DOMAIN data THEN data[user_id] ELSE NewUser
        td == IF topic \in DOMAIN user.topics THEN user.topics[topic] ELSE NewTopic
        updated == UpdateTopic(td, topic, activity_type, score, total)
        counted == [user EXCEPT
                      !.topics = (topic :> updated) @@ @,
                      !.quizzes_taken = IF activity_type = "quiz" THEN @ + 1 ELSE @,
                      !.total_activities = @ + 1]
    IN  CheckAchievements([counted EXCEPT !.average_score = AverageScore(counted)])

InitProgress ==
    /\ RagInit
    /\ use_planning
    /\ NoInvocations
    /\ NoGeneration
    /\ progress = <<>>
    /\ progress_before = <<>>
    /\ track_calls = [u \in Users |-> 0]

CallsMade == track_calls["u1"] + track_calls["u2"]

\* a call of track_activity that returns: the file is saved
TrackActivity ==
    /\ CallsMade < MaxTrackCalls
    /\ \E user_id \in Users, topic \in Topics, activity_type \in ActivityTypes,
          quiz \in QuizInputs :
        /\ activity_type # "quiz" => quiz = [score |-> None, total |-> None]
        /\ ~(activity_type = "quiz" /\ PercentageRaises(quiz.score, quiz.total))
        /\ progress' =
             (user_id :> TrackedUser(progress, user_id, topic, activity_type,
                                     quiz.score, quiz.total)) @@ progress
        /\ track_calls' = [track_calls EXCEPT ![user_id] = @ + 1]
    /\ progress_before' = progress
    /\ UNCHANGED <<ragVars, concVars, genVars>>

\* a quiz call whose percentage raises TypeError: the call ends at line 94 and
\* the file is not saved
TrackActivityRaises ==
    /\ CallsMade < MaxTrackCalls
    /\ \E user_id \in Users, quiz \in QuizInputs :
        /\ PercentageRaises(quiz.score, quiz.total)
        /\ track_calls' = [track_calls EXCEPT ![user_id] = @ + 1]
    /\ progress_before' = progress
    /\ UNCHANGED <<progress, ragVars, concVars, genVars>>

NextProgress == TrackActivity \/ TrackActivityRaises

SpecProgress == InitProgress /\ [][NextProgress]_vars

(***************************************************************************)
(* Properties.                                                             *)
(***************************************************************************)
\* the run has returned a dict
HasReturned == result.returned

\* no two passages of a list have the same trimmed content
NoDupTrimmed(ps) ==
    \A i, j \in 1..Len(ps) : i # j => Strip(ps[i]) # Strip(ps[j])

\* the number of "Source " labels in a text
SourceBlocks(text) == CountFrom(Matches(text, SourceWord), Len(SourceWord), 1)

\* C1: one call of answer() makes at most max_iterations (3) answer-generation
\* calls of the Generator, whatever the planner, the retriever and the
\* evaluator answer.
C1_GenerationBound == gen_calls <= 3

\* a run that made three generation calls and returned
C1_Witness == pc = "DONE" /\ gen_calls = 3 /\ HasReturned

\* C2: when the initial retrieval takes no passage for any sub-query, answer()
\* returns iterations 0, sources_used 0 and the not-found answer, and the
\* Generator is called neither for generation nor for evaluation.
C2_NoContextShortCircuit ==
    (/\ Len(agg_calls) = 1
     /\ pc # "RETRIEVING"
     /\ raw_taken = 0)
        => /\ pc = "NO_CONTEXT"
           /\ HasReturned
           /\ result.iterations = 0
           /\ result.sources_used = 0
           /\ result.answer = NotFoundAnswer
           /\ gen_calls = 0
           /\ eval_calls = 0

\* a run whose three sub-queries all retrieved nothing
C2_Witness ==
    /\ pc = "NO_CONTEXT"
    /\ Len(sub_queries) = 3
    /\ Len(retriever_calls) = 3
    /\ raw_taken = 0

\* C3: no evaluation follows the generation of round max_iterations - 1: a
\* run makes at most 2 evaluator calls, and the answer of the third generation
\* is the one returned.
C3_NoEvaluationOnLastIteration ==
    /\ eval_calls <= 2
    /\ gen_calls = 3 => pc \in {"DONE", "FAILED"}
    /\ pc = "EVALUATING" => iteration < 2
    /\ (HasReturned /\ gen_calls = 3) =>
           /\ eval_calls = 2
           /\ result.answer = AnswerText(3)

\* a run that returned the third answer after two evaluations
C3_Witness ==
    /\ pc = "DONE"
    /\ gen_calls = 3
    /\ eval_calls = 2
    /\ result.answer = AnswerText(3)

\* the Generator outcome of the evaluation is an exception or a text that is
\* no JSON document once the fences are stripped
EvalUnparsable ==
    /\ eval_outcome.made
    /\ eval_outcome.raised \/ ~JsonParses(CleanFences(eval_outcome.text))

\* C4: when the evaluator's Generator call raises or returns a text that does
\* not parse as JSON, _check_answer_quality returns exactly
\* {sufficient: true, missing_info: "", refinement_query: ""}.
C4_EvaluatorFailOpen ==
    EvalUnparsable =>
        /\ evaluation.kind = "dict"
        /\ evaluation.fields =
             [sufficient |-> "#true", missing_info |-> "", refinement_query |-> ""]

\* an evaluation that got plain text, and one that got an exception, were defaulted
C4_Witness ==
    /\ EvalUnparsable
    /\ eval_calls = 2
    /\ ~eval_outcome.raised
    /\ eval_outcome.text = <<TokText>>
    /\ pc = "SUFFICIENT"

\* C5: whatever the Generator returns to the evaluator, well-formed JSON that
\* is not an object included, answer() still returns: no failure of the
\* planner, the retriever or the evaluator leaves answer().
C5_EvaluationNeverBlocks ==
    /\ failure # "evaluation"
    /\ (eval_outcome.made /\ pc # "REFINING") =>
           pc \in {"SUFFICIENT", "GENERATING", "DONE"}

\* C6: when the planner's Generator call raises or returns a text that is not
\* JSON, _plan_query_strategy returns exactly [question].
C6_PlannerFallback ==
    (/\ plan_outcome.made
     /\ plan_outcome.raised \/ ~JsonParses(TokStrip(CleanFences(plan_outcome.text))))
        => sub_queries = <<question>>

\* the planner got an error text and the run retrieves with the question alone
C6_Witness ==
    /\ plan_outcome.made
    /\ plan_outcome.text = <<TokText>>
    /\ pc = "RETRIEVING"
    /\ queries = <<question>>

\* C7: the value the planner returns is a sequence of strings: a parsed value
\* that is not an array of strings is discarded for [question].
C7_PlanIsSequenceOfStrings ==
    plan_calls > 0 => \A i \in 1..Len(sub_queries) : IsStr(sub_queries[i])

\* C8: within one aggregator call no two merged passages have the same
\* trimmed content, and there are at most as many merged passages as
\* passages taken from the retriever.
C8_AggregatorDeduplicates ==
    /\ NoDupTrimmed(all_docs)
    /\ Len(all_docs) <= raw_taken
    /\ \A b \in 1..Len(blocks) : NoDupTrimmed(blocks[b])
    /\ (blocks # <<>> /\ Len(blocks) = Len(agg_calls)) =>
           Len(blocks[Len(blocks)]) <= raw_taken

\* the same query retrieved twice: six passages taken, three merged
C8_Witness ==
    /\ sub_queries = <<"q1", "q1">>
    /\ pc = "GENERATING"
    /\ raw_taken = 6
    /\ Len(blocks[1]) = 3

\* C9: the text one aggregator call returns holds at most 10 "Source N:"
\* blocks.
C9_SourceCap == SourceBlocks(combined) <= 10

\* twelve distinct passages were merged and ten blocks returned
C9_Witness ==
    /\ Len(all_docs) = 12
    /\ pc = "GENERATING"
    /\ SourceBlocks(combined) = 10

\* the passages of all the blocks the context is built from
RECURSIVE Flatten(_)
Flatten(bs) == IF bs = <<>> THEN <<>> ELSE Head(bs) \o Flatten(Tail(bs))

\* C10 as stated: at every generation step the context is built from a
\* duplicate-free sequence of at most 10 passages.
C10_ContextDuplicateFreeAndCapped ==
    pc = "GENERATING" =>
        /\ NoDupTrimmed(Flatten(blocks))
        /\ Len(Flatten(blocks)) <= 10

\* C10 as amended: at every generation step the context is the initial merged
\* text followed by one delimited text per refinement retrieval; each of them
\* is built from a duplicate-free passage list, of at most 10 passages for the
\* initial one and at most 2 for a refinement, at most 14 passages in all.
C10_ContextBlocks ==
    pc = "GENERATING" =>
        /\ context = Join(Delimiter, [b \in 1..Len(blocks) |-> CombinedContext(blocks[b])])
        /\ Len(blocks) <= 3
        /\ \A b \in 1..Len(blocks) :
             /\ NoDupTrimmed(blocks[b])
             /\ Len(blocks[b]) <= (IF b = 1 THEN 10 ELSE 2)
        /\ Len(Flatten(blocks)) <= 14

\* a third generation step whose context holds 14 passages, one of them twice
C10_Witness ==
    /\ pc = "GENERATING"
    /\ iteration = 2
    /\ Len(Flatten(blocks)) = 14
    /\ ~NoDupTrimmed(Flatten(blocks))

\* the run returned from the end of answer(), after at least one generation
ReturnedFromLoop == HasReturned /\ pc \in {"SUFFICIENT", "DONE"}

\* C11: the iterations field of a returned result is the number of
\* answer-generation calls the run made; it is 0 on the no-context return and
\* between 1 and max_iterations (3) when the initial context was not empty.
C11_IterationsCountGenerations ==
    HasReturned =>
        /\ result.iterations = gen_calls
        /\ pc = "NO_CONTEXT" => result.iterations = 0
        /\ pc # "NO_CONTEXT" => result.iterations \in 1..3

\* a run that the evaluator ended after its second generation
C11_Witness ==
    /\ pc = "SUFFICIENT"
    /\ HasReturned
    /\ gen_calls = 2
    /\ result.iterations = 2

\* C12 as stated: sources_used is the number of segments that splitting the
\* final context at the delimiter "\n\n---\n\n" gives, whatever the passages
\* contain.
C12_SourcesUsedCountsDelimiters ==
    ReturnedFromLoop => result.sources_used = SplitLen(context, Delimiter)

\* the result fields answer() sets at its last return
ResultFields == {"answer", "sources_used", "reasoning_trace", "iterations", "sub_queries"}

\* C13 as stated: every returned result carries the five fields, and its
\* sub_queries is the planner's list on every return, the no-context one
\* included, when use_planning is true, and null when it is false.
C13_ResultCarriesAllFields ==
    HasReturned =>
        /\ result.keys = ResultFields
        /\ use_planning => ~result.sub_queries_none /\ result.sub_queries = sub_queries
        /\ ~use_planning => result.sub_queries_none

\* the calls of one kind, in the order they were made
CallsOf(kind) == SelectSeq(calls, LAMBDA c : c.op = kind)

\* the verdicts of the evaluations made so far
Verdicts == [i \in 1..Len(CallsOf("evaluate")) |-> CallsOf("evaluate")[i].verdict]

\* a verdict {"sufficient": false, "refinement_query": <not empty>}
InsufficientWithQuery(v) ==
    /\ v.kind = "dict"
    /\ v.fields.sufficient = "#false"
    /\ v.fields.refinement_query \notin {Absent, ""}

\* a verdict {"sufficient": true}
SufficientVerdict(v) == v.kind = "dict" /\ v.fields.sufficient = "#true"

\* the first j verdicts ask for a refinement and the next one, if any, accepts
RefinesThenAccepts(j) ==
    /\ Len(Verdicts) >= j
    /\ \A i \in 1..j : InsufficientWithQuery(Verdicts[i])
    /\ Len(Verdicts) > j => SufficientVerdict(Verdicts[j + 1])

\* C14: when the first j evaluations (j in 0..2) answer sufficient=false with
\* a non-empty refinement_query and the next one, if there is one, answers
\* sufficient=true, the result reports min(j+1, 3) iterations and the
\* aggregator was invoked exactly j more times after the initial retrieval,
\* the i-th time with the one-element list of the i-th verdict's
\* refinement_query and the per-query limit 2.
C14_RefinementRounds ==
    ReturnedFromLoop =>
        \A j \in 0..2 :
            RefinesThenAccepts(j) =>
                /\ result.iterations = (IF j + 1 < 3 THEN j + 1 ELSE 3)
                /\ Len(CallsOf("aggregate")) = 1 + j
                /\ \A i \in 1..j :
                     /\ CallsOf("aggregate")[i + 1].queries =
                            <<Verdicts[i].fields.refinement_query>>
                     /\ CallsOf("aggregate")[i + 1].k = 2

\* a run refined twice, with two different refinement queries, and returned
\* after its third generation
C14_Witness ==
    /\ ReturnedFromLoop
    /\ RefinesThenAccepts(2)
    /\ Verdicts[1].fields.refinement_query # Verdicts[2].fields.refinement_query
    /\ result.iterations = 3
    /\ Len(CallsOf("aggregate")) = 3

\* C15: an exception of the Generator in the generation step is not caught in
\* answer(): the run ends with it, returns no result, and the failed
\* generation is the last call the run makes.
C15_GenerationFailurePropagates ==
    failure = "generation" =>
        /\ pc = "FAILED"
        /\ ~HasReturned
        /\ calls[Len(calls)].op = "generate"
        /\ Len(CallsOf("generate")) = gen_calls
        /\ Len(CallsOf("evaluate")) = eval_calls
        /\ Len(CallsOf("retrieve")) = Len(retriever_calls)

\* the second generation of a run raised, after one evaluation and a refinement
C15_Witness ==
    /\ failure = "generation"
    /\ gen_calls = 2
    /\ eval_calls = 1
    /\ Len(CallsOf("aggregate")) = 2

\* the transitions the state machine of answer() is said to take; a
\* refinement step with an empty refinement query retrieves nothing and is
\* passed through within one step, from EVALUATING to GENERATING
ListedTransitions ==
    {<<"PLANNING", "RETRIEVING">>, <<"RETRIEVING", "NO_CONTEXT">>,
     <<"RETRIEVING", "GENERATING">>, <<"GENERATING", "EVALUATING">>,
     <<"EVALUATING", "SUFFICIENT">>, <<"EVALUATING", "REFINING">>,
     <<"REFINING", "GENERATING">>, <<"EVALUATING", "GENERATING">>,
     <<"GENERATING", "DONE">>}

\* C16 as stated: as long as every Generator and Retriever call returns, a
\* run only takes the listed transitions, so that it can only end in
\* NO_CONTEXT, in SUFFICIENT or after the generation of the last iteration.
C16_OnlyListedTransitions ==
    [][pc' # pc => (<<pc, pc'>> \in ListedTransitions \/ failure' = "generation")]_vars

\* the position of the initial aggregator call among the calls
InitialAggregate == IF use_planning THEN 2 ELSE 1

\* C17: with use_planning the planner is called exactly once, before every
\* retriever call; the initial aggregator call, with all the sub-queries and
\* the per-query limit 3, and its retrievals precede the first generation;
\* every evaluator call comes right after a generation of the same
\* iteration; every refinement aggregator call comes right after a verdict
\* with sufficient false.
C17_CallOrder ==
    pc # "PLANNING" =>
        /\ use_planning =>
              /\ Len(CallsOf("plan")) = 1
              /\ calls[1].op = "plan"
        /\ ~use_planning => CallsOf("plan") = <<>>
        /\ calls[InitialAggregate].op = "aggregate"
        /\ calls[InitialAggregate].queries = sub_queries
        /\ calls[InitialAggregate].k = 3
        /\ \A i \in 1..Len(calls) :
             /\ calls[i].op = "generate" =>
                   /\ i > InitialAggregate + Len(sub_queries)
                   /\ \A n \in 1..Len(sub_queries) :
                        /\ calls[InitialAggregate + n].op = "retrieve"
                        /\ calls[InitialAggregate + n].queries = <<sub_queries[n]>>
             /\ calls[i].op = "evaluate" =>
                   /\ i > 1
                   /\ calls[i - 1].op = "generate"
                   /\ calls[i - 1].iteration = calls[i].iteration
             /\ (calls[i].op = "aggregate" /\ i # InitialAggregate) =>
                   /\ calls[i - 1].op = "evaluate"
                   /\ calls[i - 1].verdict.kind = "dict"
                   /\ calls[i - 1].verdict.fields.sufficient = "#false"

\* a planned run of several sub-queries that evaluated twice and refined twice
C17_Witness ==
    /\ use_planning
    /\ Len(sub_queries) >= 2
    /\ Len(CallsOf("plan")) = 1
    /\ Len(CallsOf("evaluate")) = 2
    /\ Len(CallsOf("aggregate")) = 3
    /\ pc = "DONE"

\* a is a prefix of b
IsPrefix(a, b) == Len(a) <= Len(b) /\ SubSeq(b, 1, Len(a)) = a

\* C18: the context only grows by appending: the context of each generation
\* call is a prefix of the context of every later generation call of the run
\* and of the current context, and the first one is the initial merged text.
C18_ContextGrowsByAppending ==
    LET gen == CallsOf("generate")
    IN  /\ \A i, j \in 1..Len(gen) : i < j => IsPrefix(gen[i].context, gen[j].context)
        /\ gen # <<>> =>
              /\ gen[1].context = CombinedContext(blocks[1])
              /\ IsPrefix(gen[Len(gen)].context, context)
              /\ IsPrefix(gen[1].context, context)

\* a run of three generations, each with a longer context than the one before
C18_Witness ==
    /\ ReturnedFromLoop
    /\ Len(CallsOf("generate")) = 3
    /\ Len(CallsOf("generate")[1].context) < Len(CallsOf("generate")[2].context)
    /\ Len(CallsOf("generate")[2].context) < Len(CallsOf("generate")[3].context)
    /\ CallsOf("generate")[3].context = context

\* a verdict with a false sufficient and an empty or missing refinement_query
InsufficientNoQuery(v) ==
    /\ v.kind = "dict"
    /\ v.fields.sufficient \in {"#false", "#0"}
    /\ v.fields.refinement_query \in {"", Absent}

\* C19: after a verdict with sufficient false and an empty refinement_query
\* the run makes no aggregator or retriever call: it goes to the next
\* iteration with the context unchanged, and its next call is the generation
\* of that iteration, with the context and the question of the generation
\* before.
C19_EmptyRefinementQuerySkipsRetrieval ==
    \A i \in 2..Len(calls) :
        (calls[i].op = "evaluate" /\ InsufficientNoQuery(calls[i].verdict)) =>
            /\ i = Len(calls) =>
                  /\ pc = "GENERATING"
                  /\ iteration = calls[i].iteration + 1
                  /\ context = calls[i - 1].context
                  /\ question = calls[i - 1].question
            /\ i < Len(calls) =>
                  /\ calls[i + 1].op = "generate"
                  /\ calls[i + 1].iteration = calls[i].iteration + 1
                  /\ calls[i + 1].context = calls[i - 1].context
                  /\ calls[i + 1].question = calls[i - 1].question

\* a run whose two verdicts were insufficient with no refinement query: three
\* generations with one context and a single aggregator call
C19_Witness ==
    /\ ReturnedFromLoop
    /\ Len(Verdicts) = 2
    /\ InsufficientNoQuery(Verdicts[1])
    /\ InsufficientNoQuery(Verdicts[2])
    /\ Len(CallsOf("generate")) = 3
    /\ Len(CallsOf("aggregate")) = 1
    /\ result.iterations = 3

\* C20: every generation call and every evaluator call of a run receives the
\* question answer() was called with; a sub-query or a refinement query is
\* passed to the retriever only.
C20_OriginalQuestionEverywhere ==
    /\ question \in Questions
    /\ \A i \in 1..Len(calls) :
         calls[i].op \in {"generate", "evaluate"} => calls[i].question = question

\* a run whose sub-queries and refinement query differ from the question and
\* that generated twice and evaluated
C20_Witness ==
    /\ ReturnedFromLoop
    /\ Len(sub_queries) >= 2
    /\ \A n \in 1..Len(sub_queries) : sub_queries[n] # question
    /\ Len(CallsOf("aggregate")) >= 2
    /\ Len(CallsOf("generate")) >= 2
    /\ CallsOf("generate")[2].question = question

\* the aggregator call in progress, or the last one that returned
CurrentAggregate == agg_calls[Len(agg_calls)]

\* the first n passages of each retrieval of fs, one retrieval after the other
RECURSIVE RefConcat(_, _)
RefConcat(fs, n) ==
    IF fs = <<>> THEN <<>>
    ELSE SubSeq(Head(fs).docs, 1, IF n < Len(Head(fs).docs) THEN n ELSE Len(Head(fs).docs))
           \o RefConcat(Tail(fs), n)

\* the passages of ps from position i on whose trimmed content no earlier
\* passage of ps has
RECURSIVE RefFirstOccurrences(_, _)
RefFirstOccurrences(ps, i) ==
    IF i > Len(ps) THEN <<>>
    ELSE (IF \A j \in 1..(i - 1) : Strip(ps[j]) # Strip(ps[i]) THEN <<ps[i]>> ELSE <<>>)
           \o RefFirstOccurrences(ps, i + 1)

\* the reference passage list of an aggregator call with the retrievals fs
RefMerged(fs, n) ==
    LET first == RefFirstOccurrences(RefConcat(fs, n), 1)
    IN  SubSeq(first, 1, IF Len(first) < 10 THEN Len(first) ELSE 10)

\* the reference output: the passages labelled Source 1 .. Source n
RefOutput(ps) ==
    IF ps = <<>> THEN <<>>
    ELSE Join(Delimiter,
              [i \in 1..Len(ps) |->
                  <<"S", "o", "u", "r", "c", "e", " ">> \o IntToStr(i) \o <<":", "\n">>
                    \o ps[i]])

\* the retrievals that did not fail
Succeeded(fs) == SelectSeq(fs, LAMBDA f : ~f.raised)

\* the aggregator call has returned its text
AggregatorReturned == agg_calls # <<>> /\ Len(blocks) = Len(agg_calls)

\* C21: a retrieval that fails for one query does not end the aggregator call:
\* the queries of the call are all retrieved, in their order, the failing one
\* adds no passage, and the passages kept and the text returned are those of
\* the same call without the failing queries.
C21_RetrievalFailureIsLocal ==
    agg_calls # <<>> =>
        /\ Len(fetched) + Len(queries) = Len(CurrentAggregate.queries)
        /\ \A i \in 1..Len(fetched) : fetched[i].query = CurrentAggregate.queries[i]
        /\ \A i \in 1..Len(queries) :
             queries[i] = CurrentAggregate.queries[Len(fetched) + i]
        /\ Len(all_docs) <= 3 * Len(Succeeded(fetched))
        /\ Capped(all_docs) = RefMerged(Succeeded(fetched), CurrentAggregate.k)
        /\ AggregatorReturned =>
              /\ queries = <<>>
              /\ combined = RefOutput(RefMerged(Succeeded(fetched), CurrentAggregate.k))

\* an aggregator call returned passages although its first and third
\* retrievals failed
C21_Witness ==
    /\ AggregatorReturned
    /\ Len(fetched) >= 4
    /\ fetched[1].raised
    /\ ~fetched[2].raised
    /\ fetched[3].raised
    /\ fetched[4].docs # <<>>
    /\ Len(all_docs) > 3

\* C22: the passages one aggregator call merges are the reference list: the
\* first per-query-limit passages of each query in rank order, the queries in
\* the order submitted, only the first occurrence of each trimmed content
\* kept, then only the first 10; the text returned labels them Source 1 to
\* Source n in that order.
C22_MergedListIsReference ==
    AggregatorReturned =>
        /\ blocks[Len(blocks)] = RefMerged(fetched, CurrentAggregate.k)
        /\ combined = RefOutput(blocks[Len(blocks)])
        /\ SourceBlocks(combined) = Len(blocks[Len(blocks)])

\* a call of four queries that dropped a repeated passage and cut the list
\* at 10
C22_Witness ==
    /\ AggregatorReturned
    /\ Len(fetched) = 4
    /\ Len(RefConcat(fetched, 3)) = 12
    /\ Len(all_docs) = 11
    /\ Len(blocks[Len(blocks)]) = 10

\* the planner call of this step was recovered: it raised, or its text did
\* not parse to a list
PlannerRecovered(o) ==
    /\ o.made
    /\ \/ o.raised
       \/ ~JsonParses(TokStrip(CleanFences(o.text)))
       \/ JsonLoads(TokStrip(CleanFences(o.text))).kind # "list"

\* the evaluator call of this step was recovered: it raised, or its text did
\* not parse
EvaluatorRecovered(o) ==
    /\ o.made
    /\ o.raised \/ ~JsonParses(CleanFences(o.text))

\* the planner answers with the list of the question alone
PlannerAnswersQuestion == Returned(<<TokDoc(JList(<<question>>))>>)

\* the evaluator answers {"sufficient": true, "missing_info": "", "refinement_query": ""}
EvaluatorAnswersSufficient == Returned(<<TokDoc(JDict("#true", "", ""))>>)

\* C23: the reasoning trace only grows by appending, and a recovered failure
\* leaves no entry in it: a step in which the planner, the retrieval of one
\* query or the evaluator failed and was recovered ends with the trace, and
\* the values the rest of the run depends on, that the same step ends with
\* when the component answers its fallback value ([question], no passages,
\* sufficient true) without failing.
C23_RecoveredFailuresLeaveNoTrace ==
    [][/\ IsPrefix(reasoning_trace, reasoning_trace')
       /\ (plan_calls' = plan_calls + 1 /\ PlannerRecovered(plan_outcome')) =>
             /\ sub_queries' = PlanQueryStrategy(question, PlannerAnswersQuestion)
             /\ queries' = sub_queries'
             /\ reasoning_trace' =
                  reasoning_trace \o
                    <<Entry("Planning retrieval strategy...", <<>>),
                      Entry("Sub-queries: ",
                            PlanQueryStrategy(question, PlannerAnswersQuestion)),
                      Entry("Retrieving information...", <<>>)>>
       /\ (Len(fetched') = Len(fetched) + 1 /\ fetched'[Len(fetched')].raised) =>
             /\ all_docs' = Dedup(<<>>, all_docs, seen_content).all
             /\ seen_content' = Dedup(<<>>, all_docs, seen_content).seen
             /\ reasoning_trace' = reasoning_trace
             /\ pc' = pc
       /\ (eval_calls' = eval_calls + 1 /\ EvaluatorRecovered(eval_outcome')) =>
             /\ evaluation' = CheckAnswerQuality(EvaluatorAnswersSufficient)
             /\ pc' = "SUFFICIENT"
             /\ reasoning_trace' =
                  reasoning_trace \o
                    <<Entry("Evaluating answer quality...", <<>>),
                      Entry("Answer is sufficient", <<>>),
                      Entry("Final answer generated", <<>>)>>
             /\ result'.reasoning_trace = reasoning_trace'
      ]_vars

\* a run returned after its planner failed, the retrieval of its only query
\* failed once and succeeded in the refinement, and its second evaluation
\* failed: the trace shows none of the failures
C23_Witness ==
    /\ pc = "SUFFICIENT"
    /\ use_planning
    /\ sub_queries = <<question>>
    /\ EvaluatorRecovered(eval_outcome)
    /\ \E i \in 1..Len(fetched) : fetched[i].raised
    /\ result.iterations = 2
    /\ result.reasoning_trace =
         <<Entry("Planning retrieval strategy...", <<>>),
           Entry("Sub-queries: ", <<question>>),
           Entry("Retrieving information...", <<>>),
           Entry("Retrieved information from multiple sources", <<>>),
           Entry("Generating answer (iteration ", IntToStr(1)),
           Entry("Evaluating answer quality...", <<>>),
           Entry("Missing info: ", <<"more">>),
           Entry("Refining with query: ", <<"X">>),
           Entry("Generating answer (iteration ", IntToStr(2)),
           Entry("Evaluating answer quality...", <<>>),
           Entry("Answer is sufficient", <<>>),
           Entry("Final answer generated", <<>>)>>

\* the frame answer() has after n steps when it runs alone with the answers sc
RECURSIVE RunAlone(_, _)
RunAlone(sc, n) == IF n = 0 THEN InitFrame(sc) ELSE FrameStep(RunAlone(sc, n - 1), sc)

LoadingErrorAt(i) ==
    /\ ~client_outcomes[i].ok
    /\ \E w \in {<<"l", "o", "a", "d", "i", "n", "g">>, <<"w", "a", "r", "m", "i", "n", "g">>, <<"n", "o", "t", " ", "r", "e", "a", "d", "y">>} :
         Contains(Lower(client_outcomes[i].text), w)

\* the i-th client call raised an exception that names a rate limit and no
\* loading model
RateLimitErrorAt(i) ==
    /\ ~client_outcomes[i].ok
    /\ ~LoadingErrorAt(i)
    /\ Contains(Lower(client_outcomes[i].text), <<"r", "a", "t", "e", " ", "l", "i", "m", "i", "t">>)

\* the i-th client call raised an exception whose message names a rate limit
NamesRateLimitAt(i) ==
    /\ ~client_outcomes[i].ok
    /\ Contains(Lower(client_outcomes[i].text), <<"r", "a", "t", "e", " ", "l", "i", "m", "i", "t">>)

\* C25 as stated: generate_answer calls the client at most max_retries times,
\* retries only after a model-loading error, and every rate-limit error ends
\* the call at once with the rate-limit text.
C25_RateLimitAlwaysEndsCall ==
    /\ ga_pc \in {"LOOP", "RETURNED"}
    /\ Len(client_outcomes) <= max_retries
    /\ \A i \in 1..Len(client_outcomes) :
         /\ (i < Len(client_outcomes) \/ ga_pc = "LOOP") => LoadingErrorAt(i)
         /\ NamesRateLimitAt(i) =>
               /\ i = Len(client_outcomes)
               /\ ga_pc = "RETURNED"
               /\ returned = RateLimitMessage

\* C25 as amended: generate_answer returns a string whatever the client does:
\* it calls the client at most max_retries times, goes on to another call
\* only after an error whose message names a loading model (loading, warming,
\* not ready) on an attempt that is not the last, and returns at once, with a
\* diagnostic text, after any other error; an error is a rate-limit error
\* only if its message names no loading model.
C25_GenerateAnswerNeverRaises ==
    /\ ga_pc \in {"LOOP", "RETURNED"}
    /\ Len(client_outcomes) <= max_retries
    /\ \A i \in 1..Len(client_outcomes) :
         (i < Len(client_outcomes) \/ ga_pc = "LOOP") =>
             LoadingErrorAt(i) /\ i < max_retries
    /\ Len(waits) = attempt
    /\ \A i \in 1..Len(waits) : waits[i] = 5 * i
    /\ ga_pc = "RETURNED" =>
          /\ returned # <<>> \/ (client_outcomes # <<>> /\
                                    client_outcomes[Len(client_outcomes)].ok)
          /\ client_outcomes = <<>> => max_retries = 0 /\ returned = NoConnectionMessage
          /\ client_outcomes # <<>> =>
                LET n == Len(client_outcomes)
                    last == client_outcomes[n]
                IN  /\ (last.ok /\ ~last.none) => returned = Strip(last.text)
                    /\ LoadingErrorAt(n) => n = max_retries /\ returned = LoadingMessage
                    /\ RateLimitErrorAt(n) => returned = RateLimitMessage
                    /\ (~last.ok /\ ~LoadingErrorAt(n) /\ ~RateLimitErrorAt(n)) =>
                          returned = UnableMessage(last.text)
                    /\ (last.ok /\ last.none) => returned = UnableMessage(NoneStripMessage)

\* a call that retried after an error naming a rate limit and a loading
\* model, retried again, and ended at its third attempt with a rate-limit
\* error
C25_Witness ==
    /\ ga_pc = "RETURNED"
    /\ max_retries = 3
    /\ Len(client_outcomes) = 3
    /\ NamesRateLimitAt(1)
    /\ LoadingErrorAt(1)
    /\ waits = <<5, 10>>
    /\ RateLimitErrorAt(3)
    /\ returned = RateLimitMessage

\* C26: one call of answer() makes at most 6 Generator calls, 1 for the
\* planning, at most 3 for the generation and at most 2 for the evaluation,
\* and invokes the retriever at most len(sub_queries) + 2 times, once per
\* sub-query and once per refinement.
C26_CallBudget ==
    /\ plan_calls <= 1
    /\ gen_calls <= 3
    /\ eval_calls <= 2
    /\ plan_calls + gen_calls + eval_calls <= 6
    /\ Len(CallsOf("plan")) + Len(CallsOf("generate")) + Len(CallsOf("evaluate")) =
          plan_calls + gen_calls + eval_calls
    /\ Len(retriever_calls) <= Len(sub_queries) + 2
    /\ Len(CallsOf("retrieve")) = Len(retriever_calls)
    /\ pc \notin {"PLANNING", "RETRIEVING"} =>
          Len(retriever_calls) <= Len(sub_queries) + eval_calls

\* a planned run of four sub-queries that spent the whole budget: 6 Generator
\* calls and 4 + 2 retriever invocations
C26_Witness ==
    /\ pc = "DONE"
    /\ Len(sub_queries) = 4
    /\ plan_calls + gen_calls + eval_calls = 6
    /\ Len(retriever_calls) = 6

\* the position among the calls of the j-th aggregator call
AggregatePosition(j) ==
    CHOOSE i \in 1..Len(calls) :
        /\ calls[i].op = "aggregate"
        /\ Cardinality({m \in 1..i : calls[m].op = "aggregate"}) = j

\* the context of the generation before the call at position i
ContextBefore(i) ==
    calls[CHOOSE m \in 1..(i - 1) :
            /\ calls[m].op = "generate"
            /\ \A n \in (m + 1)..(i - 1) : calls[n].op # "generate"].context

\* the context after the aggregator call at position i returned: that of the
\* next generation, or the current one if no generation followed yet
ContextAfter(i) ==
    IF \E m \in (i + 1)..Len(calls) : calls[m].op = "generate"
    THEN calls[CHOOSE m \in (i + 1)..Len(calls) :
                 /\ calls[m].op = "generate"
                 /\ \A n \in (i + 1)..(m - 1) : calls[n].op # "generate"].context
    ELSE context

\* C27: a refinement retrieval that yields no passage still extends the
\* context, by exactly one delimiter at its end: the next generation gets a
\* changed context, which has one segment more than before, and a run that
\* returns right after reports a sources_used one higher than the number of
\* segments before that refinement.
C27_EmptyRefinementAppendsDelimiter ==
    \A j \in 2..Len(blocks) :
        blocks[j] = <<>> =>
            LET i == AggregatePosition(j)
                before == ContextBefore(i)
                after == ContextAfter(i)
            IN  /\ after = before \o <<"\n", "\n", "-", "-", "-", "\n", "\n">>
                /\ after # before
                /\ SplitLen(after, Delimiter) = SplitLen(before, Delimiter) + 1
                /\ SplitLen(after, <<"-", "-", "-">>) = SplitLen(before, <<"-", "-", "-">>) + 1
                /\ (j = Len(blocks) /\ ReturnedFromLoop) =>
                      /\ context = after
                      /\ result.sources_used = SplitLen(before, <<"-", "-", "-">>) + 1

\* a run whose only refinement retrieved nothing and that returned after the
\* next generation: its context ends with the delimiter
C27_Witness ==
    /\ ReturnedFromLoop
    /\ Len(blocks) = 2
    /\ blocks[2] = <<>>
    /\ Len(CallsOf("generate")) >= 2
    /\ CallsOf("generate")[2].context = CallsOf("generate")[1].context \o Delimiter
    /\ result.sources_used = SplitLen(CallsOf("generate")[1].context, SplitSep) + 1

\* the values of a verdict's sufficient entry that Python takes as false
FalsyValues == {"#false", "#0", "", "#null"}

\* C28: the loop decides by the truthiness of the verdict's sufficient entry,
\* true when the entry is missing: a verdict object without the entry, or
\* with a non-empty string such as "false", ends the run as SUFFICIENT at
\* that evaluation; only a falsy entry (false, 0, "", null) takes the run to
\* the refinement branch, which records the missing information and goes on.
C28_SufficiencyByTruthiness ==
    \A i \in 1..Len(calls) :
        (calls[i].op = "evaluate" /\ calls[i].verdict.kind = "dict") =>
            LET entry == calls[i].verdict.fields.sufficient
            IN  /\ entry \notin FalsyValues =>
                      /\ i = Len(calls)
                      /\ pc = "SUFFICIENT"
                      /\ HasReturned
                      /\ result.iterations = calls[i].iteration + 1
                /\ entry \in FalsyValues =>
                      /\ i = Len(calls) => pc \in {"REFINING", "GENERATING"}
                      /\ i < Len(calls) => calls[i + 1].op \in {"aggregate", "generate"}
                      /\ \E t \in 1..Len(reasoning_trace) :
                           /\ reasoning_trace[t].msg = "Missing info: "
                           /\ Len(SelectSeq(SubSeq(reasoning_trace, 1, t),
                                             LAMBDA e : e.msg = "Evaluating answer quality..."))
                                = calls[i].iteration + 1

\* a run that went on after a verdict whose sufficient entry is null and
\* ended as SUFFICIENT on a verdict whose entry is the string "false"
C28_Witness ==
    /\ pc = "SUFFICIENT"
    /\ Len(Verdicts) = 2
    /\ Verdicts[1].fields.sufficient = "#null"
    /\ Verdicts[2].fields.sufficient = "false"
    /\ result.iterations = 2

\* the planner's Generator call returned a text that parses to the empty list
PlannerAnsweredEmptyList ==
    /\ plan_outcome.made
    /\ ~plan_outcome.raised
    /\ JsonParses(TokStrip(CleanFences(plan_outcome.text)))
    /\ JsonLoads(TokStrip(CleanFences(plan_outcome.text))) = JList(<<>>)

\* C29: when the planner's Generator output parses to the empty JSON array
\* the plan is the empty list: the retriever is never invoked in the run and
\* answer() ends on the no-context return with the not-found answer, although
\* a retrieval with the question itself could have returned passages.
C29_EmptyPlanEndsWithoutRetrieval ==
    /\ (pc = "RETRIEVING" /\ PlannerAnsweredEmptyList) =>
          /\ sub_queries = <<>>
          /\ queries = <<>>
          /\ retriever_calls = <<>>
    /\ (use_planning /\ sub_queries = <<>> /\ pc \notin {"PLANNING", "RETRIEVING"}) =>
          /\ pc = "NO_CONTEXT"
          /\ HasReturned
          /\ result.answer = NotFoundAnswer
          /\ result.iterations = 0
          /\ retriever_calls = <<>>
          /\ CallsOf("retrieve") = <<>>
          /\ gen_calls = 0
          /\ \E o \in RetrieverOutcomes(question) : ~o.raised /\ o.docs # <<>>

\* a planned run that ended on the no-context return with an empty plan and
\* not one retriever call
C29_Witness ==
    /\ pc = "NO_CONTEXT"
    /\ use_planning
    /\ plan_calls = 1
    /\ sub_queries = <<>>
    /\ retriever_calls = <<>>
    /\ result.answer = NotFoundAnswer

\* the value total_activities has for a user, 0 for a user not in the file
TotalActivities(u) == IF u \in DOMAIN progress THEN progress[u].total_activities ELSE 0

\* C30 as stated: after any sequence of track_activity calls every topic's
\* mastery_level is one of 0, 25, 50, 75, 80, 100 and is not lower than
\* before the last call, and each user's total_activities is the number of
\* track_activity calls made for that user.
C30_MasteryAndActivityCount ==
    /\ \A u \in DOMAIN progress : \A t \in DOMAIN progress[u].topics :
         /\ progress[u].topics[t].mastery_level \in {0, 25, 50, 75, 80, 100}
         /\ (u \in DOMAIN progress_before /\ t \in DOMAIN progress_before[u].topics) =>
               progress[u].topics[t].mastery_level >=
                 progress_before[u].topics[t].mastery_level
    /\ \A u \in Users : TotalActivities(u) = track_calls[u]

====
